---- MODULE Spec2Model ----
(***************************************************************************)
(* Model of the scheduling and synchronization core of libhermit-rs:       *)
(*   src/src/synch/recmutex.rs   RecursiveMutex::acquire / release         *)
(*   src/src/lib.rs              boot_processor_main,                      *)
(*                               application_processor_main, initd         *)
(* The scheduler module (PriorityTaskQueue, BlockedTaskQueue, the          *)
(* per-core scheduler and the scheduler registry) is used by these files   *)
(* but is not among them; it is modelled from its description in the       *)
(* specification (sections 4.3 - 4.5).                                     *)
(***************************************************************************)
EXTENDS Integers, Sequences, FiniteSets, TLC

\* ------------------------------------------------------------------ bounds
NumCores == 2
NumTasks == 3
MaxDepth == 2
MaxPQLen == 3

\* -------------------------------------------------------- program constants
LOW_PRIO == 1
NORMAL_PRIO == 2

Cores == 0 .. (NumCores - 1)
BootCore == 0
TaskIds == 1 .. NumTasks
Prios == {LOW_PRIO, NORMAL_PRIO}
NoTask == 0
IdleTask == -1
NoCore == -1

VARIABLES
  corePc,     \* per core: position in boot_processor_main / application_processor_main
  registry,   \* Scheduler Registry: core -> number of Schedulers registered for it
              \* so far (0: no entry; the entry is the latest one)
  current,    \* per core: Scheduler.current_task (NoTask before construction)
  ready,      \* per core: Scheduler.ready_queue, a PriorityTaskQueue
  blocked,    \* per core: the content of Scheduler.blocked_tasks
  blockedLock,\* per core: holder of the Spinlock around blocked_tasks
  tstate,     \* per task: "None" (not spawned), "Ready", "Running", "Blocked"
  home,       \* per task: core_id
  prio,       \* per task: priority
  pc,         \* per task: position in its code
  held,       \* per task: acquire() calls returned minus release() calls returned
  woken,      \* per task: the local `task` of release() (line 85)
  current_tid,\* RecursiveMutexState.current_tid (NoTask is None)
  count,      \* RecursiveMutexState.count
  queue,      \* RecursiveMutexState.queue, a PriorityTaskQueue
  stateLock,  \* holder of RecursiveMutex.state's Spinlock (NoTask when free)
  arrival,    \* history: the waiters in the order in which they were pushed
  pending,    \* history: the tasks that have blocked in acquire() and have not
              \* become the owner since
  pq, pqLog, pqOut  \* the PriorityTaskQueue exercised on its own

vars == << corePc, registry, current, ready, blocked,
           blockedLock, tstate, home, prio, pc, held, woken, current_tid,
           count, queue, stateLock, arrival, pending, pq, pqLog, pqOut >>

bootVars == << corePc, registry >>
mutexVars == << current_tid, count, queue, stateLock, arrival, pending >>
pqVars == << pq, pqLog, pqOut >>

\* ------------------------------------------------------ PriorityTaskQueue
\* PriorityTaskQueue::new(): one empty FIFO list per priority level.
EmptyQueue == [p \in Prios |-> << >>]

\* push that puts the task at the head of the list of its priority.
push_front(q, t, p) == [q EXCEPT ![p] = << t >> \o @]

\* push(task): append to the tail of the list of the task's priority.
push(q, t, p) == [q EXCEPT ![p] = Append(@, t)]

IsEmpty(q) == \A p \in Prios : q[p] = << >>

\* The highest priority level whose list is not empty.
TopPrio(q) == CHOOSE p \in Prios : q[p] # << >> /\ \A r \in Prios : q[r] # << >> => r <= p

\* pop(): the head of the first non-empty list, scanning from the highest
\* priority down; NoTask when every list is empty.
pop_task(q) == IF IsEmpty(q) THEN NoTask ELSE Head(q[TopPrio(q)])

pop_rest(q) == IF IsEmpty(q) THEN q ELSE [q EXCEPT ![TopPrio(q)] = Tail(@)]

QueueTasks(q) == UNION { { q[p][i] : i \in 1 .. Len(q[p]) } : p \in Prios }

QueueOccurrences(q, t) ==
  Cardinality({ <<p, i>> \in Prios \X (1 .. NumTasks + 2) : i <= Len(q[p]) /\ q[p][i] = t })

\* ------------------------------------------------------- BlockedTaskQueue
RECURSIVE RemoveFirst(_, _)
RemoveFirst(s, t) ==
  IF s = << >> THEN << >>
  ELSE IF Head(s) = t THEN Tail(s)
  ELSE << Head(s) >> \o RemoveFirst(Tail(s), t)

SeqOccurrences(s, t) == Cardinality({ i \in 1 .. Len(s) : s[i] = t })

\* add(task, None): the task becomes Blocked and enters the collection.
add_blocked(b, t) == Append(b, t)

\* custom_wakeup(task): the task leaves the collection ...
wakeup_blocked(b, t) == RemoveFirst(b, t)

\* ---------------------------------------------------------------- Scheduler
IsTask(x) == x \in TaskIds

\* scheduler(), first half: a current task that is still Running goes back
\* to the ready queue (a voluntary yield). The idle task lives in the
\* idle_task slot and is never queued.
SchedReady(c) ==
  IF IsTask(current[c]) /\ tstate[current[c]] = "Running"
  THEN push(ready[c], current[c], prio[current[c]])
  ELSE ready[c]

\* scheduler(), second half: the next task is popped from the ready queue,
\* and is the idle task when the queue is empty.
SchedNext(c) ==
  IF pop_task(SchedReady(c)) = NoTask THEN IdleTask ELSE pop_task(SchedReady(c))

scheduler(c) ==
  /\ ready' = [ready EXCEPT ![c] = pop_rest(SchedReady(c))]
  /\ current' = [current EXCEPT ![c] = SchedNext(c)]
  /\ tstate' = [t \in TaskIds |->
                  IF t = SchedNext(c) THEN "Running"
                  ELSE IF t = current[c] /\ tstate[t] = "Running" THEN "Ready"
                  ELSE tstate[t]]

\* add_current_core(): constructs the core's Scheduler (idle task current,
\* empty queues) and registers it.
add_current_core(c) ==
  /\ registry' = [registry EXCEPT ![c] = @ + 1]
  /\ current' = [current EXCEPT ![c] = IdleTask]
  /\ ready' = [ready EXCEPT ![c] = EmptyQueue]
  /\ blocked' = [blocked EXCEPT ![c] = << >>]

\* The smallest TaskId not yet given to a task.
FreshTid == CHOOSE n \in TaskIds : tstate[n] = "None" /\ \A m \in TaskIds : tstate[m] = "None" => n <= m

\* The home core spawn() selects for a new task: the cores take the tasks in
\* turn, and a core whose Scheduler is not registered yet is passed over for
\* the caller's.
HomeOf(n, caller) ==
  IF registry[(n - 1) % NumCores] > 0 THEN (n - 1) % NumCores ELSE caller

\* spawn(entry, arg, prio) with home core h: a new Ready task in h's ready queue.
spawn(h, p) ==
  /\ \E n \in TaskIds : tstate[n] = "None"
  /\ registry[h] > 0
  /\ tstate' = [tstate EXCEPT ![FreshTid] = "Ready"]
  /\ home' = [home EXCEPT ![FreshTid] = h]
  /\ prio' = [prio EXCEPT ![FreshTid] = p]
  /\ ready' = [ready EXCEPT ![h] = push(@, FreshTid, p)]

\* ------------------------------------------------------------------- Init
Init ==
  /\ \E ap \in {"off", "init"} :
       corePc = [c \in Cores |-> IF c = BootCore THEN "init" ELSE ap]
  /\ registry = [c \in Cores |-> 0]
  /\ current = [c \in Cores |-> NoTask]
  /\ ready = [c \in Cores |-> EmptyQueue]
  /\ blocked = [c \in Cores |-> << >>]
  /\ blockedLock = [c \in Cores |-> NoTask]
  /\ tstate = [t \in TaskIds |-> "None"]
  /\ home = [t \in TaskIds |-> NoCore]
  /\ prio = [t \in TaskIds |-> LOW_PRIO]
  /\ pc = [t \in TaskIds |-> "run"]
  /\ held = [t \in TaskIds |-> 0]
  /\ woken = [t \in TaskIds |-> NoTask]
  /\ current_tid = NoTask
  /\ count = 0
  /\ queue = EmptyQueue
  /\ stateLock = NoTask
  /\ arrival = << >>
  /\ pending = {}
  /\ pq = EmptyQueue
  /\ pqLog = << >>
  /\ pqOut = << "none", NoTask >>

\* ------------------------------------------------------------------- boot
\* boot_processor_main: scheduler::init(); scheduler::add_current_core();
BootAddCurrentCore ==
  /\ corePc[BootCore] = "init"
  /\ add_current_core(BootCore)
  /\ corePc' = [corePc EXCEPT ![BootCore] = "registered"]
  /\ UNCHANGED << blockedLock, tstate, home, prio, pc, held, woken >>
  /\ UNCHANGED mutexVars /\ UNCHANGED pqVars

\* boot_processor_main: if is_single_kernel() && !is_uhyve()
\*                        { arch::boot_application_processors(); }
\* is_single_kernel() && !is_uhyve(): on bare metal the application
\* processors wait for the boot processor to start them; under a hypervisor
\* they are started from outside and run from the beginning.
BootApplicationProcessors ==
  /\ corePc[BootCore] = "registered"
  /\ corePc' = [c \in Cores |->
                  IF c = BootCore THEN "spawn"
                  ELSE IF corePc[c] = "off" THEN "init"
                  ELSE corePc[c]]
  /\ UNCHANGED << registry, current, ready, blocked, blockedLock,
                  tstate, home, prio, pc, held, woken >>
  /\ UNCHANGED mutexVars /\ UNCHANGED pqVars

\* boot_processor_main: core_scheduler.spawn(initd, 0, NORMAL_PRIO);
BootSpawnInitd ==
  /\ corePc[BootCore] = "spawn"
  /\ spawn(BootCore, NORMAL_PRIO)
  /\ corePc' = [corePc EXCEPT ![BootCore] = "loop"]
  /\ UNCHANGED << registry, current, blocked, blockedLock,
                  pc, held, woken >>
  /\ UNCHANGED mutexVars /\ UNCHANGED pqVars

\* APAddCurrentCore with add_current_core() inside the loop.
APAddCurrentCore_Again(c) ==
  /\ c # BootCore
  /\ corePc[c] \in {"init", "loop"}
  /\ current[c] \in {NoTask, IdleTask}
  /\ add_current_core(c)
  /\ corePc' = [corePc EXCEPT ![c] = "loop"]
  /\ UNCHANGED << blockedLock, tstate, home, prio, pc, held, woken >>
  /\ UNCHANGED mutexVars /\ UNCHANGED pqVars

\* application_processor_main: scheduler::add_current_core(); then the loop.
APAddCurrentCore(c) ==
  /\ c # BootCore
  /\ corePc[c] = "init"
  /\ add_current_core(c)
  /\ corePc' = [corePc EXCEPT ![c] = "loop"]
  /\ UNCHANGED << blockedLock, tstate, home, prio, pc, held, woken >>
  /\ UNCHANGED mutexVars /\ UNCHANGED pqVars

\* SchedulerLoop that ends when scheduler() hands it the idle task again.
SchedulerLoop_Leaves(c) ==
  /\ corePc[c] = "loop"
  /\ current[c] = IdleTask
  /\ scheduler(c)
  /\ corePc' = [corePc EXCEPT ![c] = IF SchedNext(c) = IdleTask THEN "halted" ELSE @]
  /\ UNCHANGED << registry, blocked, blockedLock, home, prio, pc, held, woken >>
  /\ UNCHANGED mutexVars /\ UNCHANGED pqVars

\* loop { core_scheduler.scheduler(); } of both entry points: it runs in the
\* boot context of the core, which is the core's idle task.
SchedulerLoop(c) ==
  /\ corePc[c] = "loop"
  /\ current[c] = IdleTask
  /\ scheduler(c)
  /\ UNCHANGED << blocked, blockedLock, home, prio, pc, held, woken >>
  /\ UNCHANGED bootVars /\ UNCHANGED mutexVars /\ UNCHANGED pqVars

\* ------------------------------------------------------------------ tasks
\* Task t is the one its core executes: it is the current task of a core
\* that is in its dispatch loop (and not in a fatal handler).
Executing(t) == tstate[t] # "None" /\ current[home[t]] = t /\ corePc[home[t]] = "loop"

\* A task gives up the core: core_scheduler().scheduler() as in initd.
Yield(t) ==
  /\ Executing(t) /\ pc[t] = "run"
  /\ scheduler(home[t])
  /\ UNCHANGED << blocked, blockedLock, home, prio, pc, held, woken >>
  /\ UNCHANGED bootVars /\ UNCHANGED mutexVars /\ UNCHANGED pqVars

\* A task creates another one.
TaskSpawn(t, p) ==
  /\ Executing(t) /\ pc[t] = "run"
  /\ \E n \in TaskIds : tstate[n] = "None"
  /\ spawn(HomeOf(FreshTid, home[t]), p)
  /\ UNCHANGED << current, blocked, blockedLock, pc, held, woken >>
  /\ UNCHANGED bootVars /\ UNCHANGED mutexVars /\ UNCHANGED pqVars

\* ---------------------------------------------------- RecursiveMutex::acquire
\* let core_scheduler = core_scheduler(); let tid = ...current_task.borrow().id;
\* loop { let mut locked_state = self.state.lock();
\* Entered by a call of acquire() or by the loop after scheduler() returned.
AcquireLock(t) ==
  /\ Executing(t)
  /\ pc[t] = "a_lock" \/ (pc[t] = "run" /\ held[t] < MaxDepth)
  /\ stateLock = NoTask
  /\ stateLock' = t
  /\ pc' = [pc EXCEPT ![t] = "a_check"]
  /\ UNCHANGED << current, ready, blocked, blockedLock, tstate, home, prio, held, woken,
                  current_tid, count, queue, arrival, pending >>
  /\ UNCHANGED bootVars /\ UNCHANGED pqVars

\* AcquireCheck with the test of the owner lost: a mutex held by another
\* task is taken over.
AcquireCheck_TakesOver(t) ==
  /\ Executing(t) /\ pc[t] = "a_check"
  /\ IF current_tid = t
     THEN count' = count + 1 /\ UNCHANGED current_tid
     ELSE count' = 1 /\ current_tid' = t
  /\ stateLock' = NoTask
  /\ pc' = [pc EXCEPT ![t] = "run"]
  /\ held' = [held EXCEPT ![t] = @ + 1]
  /\ UNCHANGED << current, ready, blocked, blockedLock, tstate, home, prio, woken,
                  queue, arrival >>
  /\ pending' = pending \ {t}
  /\ UNCHANGED bootVars /\ UNCHANGED pqVars

\* AcquireCheck with `count = 1` of the new owner lost.
AcquireCheck_NoCount(t) ==
  /\ Executing(t) /\ pc[t] = "a_check"
  /\ IF current_tid # NoTask
     THEN IF current_tid = t
          THEN /\ count' = count + 1
               /\ stateLock' = NoTask
               /\ pc' = [pc EXCEPT ![t] = "run"]
               /\ held' = [held EXCEPT ![t] = @ + 1]
               /\ UNCHANGED current_tid
               /\ UNCHANGED blockedLock
          ELSE /\ blockedLock[home[t]] = NoTask
               /\ blockedLock' = [blockedLock EXCEPT ![home[t]] = t]
               /\ pc' = [pc EXCEPT ![t] = "a_add"]
               /\ UNCHANGED << current_tid, count, stateLock, held >>
     ELSE /\ current_tid' = t
          /\ count' = count
          /\ stateLock' = NoTask
          /\ pc' = [pc EXCEPT ![t] = "run"]
          /\ held' = [held EXCEPT ![t] = @ + 1]
          /\ UNCHANGED blockedLock
  /\ UNCHANGED << current, ready, blocked, tstate, home, prio, woken,
                  queue, arrival >>
  /\ pending' = IF current_tid \in {NoTask, t} THEN pending \ {t} ELSE pending
  /\ UNCHANGED bootVars /\ UNCHANGED pqVars

\* An acquire() that drops locked_state before it takes the blocked-queue
\* lock.
AcquireCheck_DropsStateLock(t) ==
  /\ Executing(t) /\ pc[t] = "a_check"
  /\ IF current_tid # NoTask
     THEN IF current_tid = t
          THEN /\ count' = count + 1
               /\ stateLock' = NoTask
               /\ pc' = [pc EXCEPT ![t] = "run"]
               /\ held' = [held EXCEPT ![t] = @ + 1]
               /\ UNCHANGED current_tid
               /\ UNCHANGED blockedLock
          ELSE /\ blockedLock[home[t]] = NoTask
               /\ blockedLock' = [blockedLock EXCEPT ![home[t]] = t]
               /\ pc' = [pc EXCEPT ![t] = "a_add"]
               /\ stateLock' = NoTask
               /\ UNCHANGED << current_tid, count, held >>
     ELSE /\ current_tid' = t
          /\ count' = 1
          /\ stateLock' = NoTask
          /\ pc' = [pc EXCEPT ![t] = "run"]
          /\ held' = [held EXCEPT ![t] = @ + 1]
          /\ UNCHANGED blockedLock
  /\ UNCHANGED << current, ready, blocked, tstate, home, prio, woken,
                  queue, arrival >>
  /\ pending' = IF current_tid \in {NoTask, t} THEN pending \ {t} ELSE pending
  /\ UNCHANGED bootVars /\ UNCHANGED pqVars

\* if let Some(current_tid) = locked_state.current_tid {
\*     if current_tid == tid { count += 1; return; }
\* } else { current_tid = Some(tid); count = 1; return; }
\* Returning drops locked_state, which unlocks the state. Otherwise:
\* core_scheduler.blocked_tasks.lock()
AcquireCheck(t) ==
  /\ Executing(t) /\ pc[t] = "a_check"
  /\ IF current_tid # NoTask
     THEN IF current_tid = t
          THEN /\ count' = count + 1
               /\ stateLock' = NoTask
               /\ pc' = [pc EXCEPT ![t] = "run"]
               /\ held' = [held EXCEPT ![t] = @ + 1]
               /\ UNCHANGED current_tid
               /\ UNCHANGED blockedLock
          ELSE /\ blockedLock[home[t]] = NoTask
               /\ blockedLock' = [blockedLock EXCEPT ![home[t]] = t]
               /\ pc' = [pc EXCEPT ![t] = "a_add"]
               /\ UNCHANGED << current_tid, count, stateLock, held >>
     ELSE /\ current_tid' = t
          /\ count' = 1
          /\ stateLock' = NoTask
          /\ pc' = [pc EXCEPT ![t] = "run"]
          /\ held' = [held EXCEPT ![t] = @ + 1]
          /\ UNCHANGED blockedLock
  /\ UNCHANGED << current, ready, blocked, tstate, home, prio, woken,
                  queue, arrival >>
  /\ pending' = IF current_tid \in {NoTask, t} THEN pending \ {t} ELSE pending
  /\ UNCHANGED bootVars /\ UNCHANGED pqVars

\* An acquire() that drops locked_state between its two insertions.
AcquireAdd_Unlocks(t) ==
  /\ Executing(t) /\ pc[t] = "a_add"
  /\ blocked' = [blocked EXCEPT ![home[t]] = add_blocked(@, t)]
  /\ tstate' = [tstate EXCEPT ![t] = "Blocked"]
  /\ blockedLock' = [blockedLock EXCEPT ![home[t]] = NoTask]
  /\ stateLock' = NoTask
  /\ pc' = [pc EXCEPT ![t] = "a_push"]
  /\ UNCHANGED << current, ready, home, prio, held, woken,
                  current_tid, count, queue, arrival, pending >>
  /\ UNCHANGED bootVars /\ UNCHANGED pqVars

\* .add(core_scheduler.current_task.clone(), None); the guard of
\* blocked_tasks is a temporary and is dropped at the end of the statement.
AcquireAdd(t) ==
  /\ Executing(t) /\ pc[t] = "a_add"
  /\ blocked' = [blocked EXCEPT ![home[t]] = add_blocked(@, t)]
  /\ tstate' = [tstate EXCEPT ![t] = "Blocked"]
  /\ blockedLock' = [blockedLock EXCEPT ![home[t]] = NoTask]
  /\ pc' = [pc EXCEPT ![t] = "a_push"]
  /\ UNCHANGED << current, ready, home, prio, held, woken >>
  /\ UNCHANGED bootVars /\ UNCHANGED mutexVars /\ UNCHANGED pqVars

\* AcquirePush with the waiter queued at one fixed priority.
AcquirePush_FixedPrio(t) ==
  /\ Executing(t) /\ pc[t] = "a_push"
  /\ queue' = push(queue, t, NORMAL_PRIO)
  /\ arrival' = Append(arrival, t)
  /\ pending' = pending \cup {t}
  /\ stateLock' = NoTask
  /\ pc' = [pc EXCEPT ![t] = "a_sched"]
  /\ UNCHANGED << current, ready, blocked, blockedLock, tstate, home, prio, held, woken,
                  current_tid, count >>
  /\ UNCHANGED bootVars /\ UNCHANGED pqVars

\* An acquire() that still holds locked_state when it calls scheduler().
AcquirePush_KeepsLock(t) ==
  /\ Executing(t) /\ pc[t] = "a_push"
  /\ queue' = push(queue, t, prio[t])
  /\ arrival' = Append(arrival, t)
  /\ pending' = pending \cup {t}
  /\ pc' = [pc EXCEPT ![t] = "a_sched"]
  /\ UNCHANGED << current, ready, blocked, blockedLock, tstate, home, prio, held, woken,
                  current_tid, count, stateLock >>
  /\ UNCHANGED bootVars /\ UNCHANGED pqVars

\* An acquire() that blocks without entering the wait queue.
AcquirePush_SkipsQueue(t) ==
  /\ Executing(t) /\ pc[t] = "a_push"
  /\ pending' = pending \cup {t}
  /\ stateLock' = NoTask
  /\ pc' = [pc EXCEPT ![t] = "a_sched"]
  /\ UNCHANGED << current, ready, blocked, blockedLock, tstate, home, prio, held, woken,
                  current_tid, count, queue, arrival >>
  /\ UNCHANGED bootVars /\ UNCHANGED pqVars

\* locked_state.queue.push(core_scheduler.current_task.clone()); the block
\* ends and locked_state is dropped.
AcquirePush(t) ==
  /\ Executing(t) /\ pc[t] = "a_push"
  /\ queue' = push(queue, t, prio[t])
  /\ arrival' = Append(arrival, t)
  /\ pending' = pending \cup {t}
  /\ stateLock' = NoTask
  /\ pc' = [pc EXCEPT ![t] = "a_sched"]
  /\ UNCHANGED << current, ready, blocked, blockedLock, tstate, home, prio, held, woken,
                  current_tid, count >>
  /\ UNCHANGED bootVars /\ UNCHANGED pqVars

\* An acquire() that takes its resumption for the grant of the mutex and
\* returns without checking the state again.
AcquireSched_Returns(t) ==
  /\ Executing(t) /\ pc[t] = "a_sched"
  /\ scheduler(home[t])
  /\ pc' = [pc EXCEPT ![t] = "run"]
  /\ held' = [held EXCEPT ![t] = @ + 1]
  /\ UNCHANGED << blocked, blockedLock, home, prio, woken >>
  /\ UNCHANGED bootVars /\ UNCHANGED mutexVars /\ UNCHANGED pqVars

\* core_scheduler.scheduler(); when the task runs again it is at the top of
\* the loop.
AcquireSched(t) ==
  /\ Executing(t) /\ pc[t] = "a_sched"
  /\ scheduler(home[t])
  /\ pc' = [pc EXCEPT ![t] = "a_lock"]
  /\ UNCHANGED << blocked, blockedLock, home, prio, held, woken >>
  /\ UNCHANGED bootVars /\ UNCHANGED mutexVars /\ UNCHANGED pqVars

\* ---------------------------------------------------- RecursiveMutex::release
\* let mut locked_state = self.state.lock(); the callers release what they
\* hold.
ReleaseLock(t) ==
  /\ Executing(t) /\ pc[t] = "run"
  /\ held[t] > 0
  /\ stateLock = NoTask
  /\ stateLock' = t
  /\ pc' = [pc EXCEPT ![t] = "r_dec"]
  /\ UNCHANGED << current, ready, blocked, blockedLock, tstate, home, prio, held, woken,
                  current_tid, count, queue, arrival, pending >>
  /\ UNCHANGED bootVars /\ UNCHANGED pqVars

\* ReleaseDec with the test `count == 0` lost: every release() is a final one.
ReleaseDec_ClearsAlways(t) ==
  /\ Executing(t) /\ pc[t] = "r_dec"
  /\ count' = count - 1
  /\ IF TRUE
     THEN /\ current_tid' = NoTask
          /\ queue' = pop_rest(queue)
          /\ woken' = [woken EXCEPT ![t] = pop_task(queue)]
          /\ arrival' = RemoveFirst(arrival, pop_task(queue))
          /\ IF pop_task(queue) # NoTask
             THEN /\ blockedLock[home[pop_task(queue)]] = NoTask
                  /\ blockedLock' = [blockedLock EXCEPT ![home[pop_task(queue)]] = t]
                  /\ pc' = [pc EXCEPT ![t] = "r_wake"]
             ELSE /\ pc' = [pc EXCEPT ![t] = "r_unlock"]
                  /\ UNCHANGED blockedLock
     ELSE /\ pc' = [pc EXCEPT ![t] = "r_unlock"]
          /\ UNCHANGED << current_tid, queue, woken, arrival, blockedLock >>
  /\ UNCHANGED << current, ready, blocked, tstate, home, prio, held, stateLock, pending >>
  /\ UNCHANGED bootVars /\ UNCHANGED pqVars

\* ReleaseDec with core_scheduler() in place of get_scheduler(task.core_id):
\* the waiter is looked for on the releasing core.
ReleaseDec_OwnCore(t) ==
  /\ Executing(t) /\ pc[t] = "r_dec"
  /\ count' = count - 1
  /\ IF count - 1 = 0
     THEN /\ current_tid' = NoTask
          /\ queue' = pop_rest(queue)
          /\ woken' = [woken EXCEPT ![t] = pop_task(queue)]
          /\ arrival' = RemoveFirst(arrival, pop_task(queue))
          /\ IF pop_task(queue) # NoTask
             THEN /\ blockedLock[home[t]] = NoTask
                  /\ blockedLock' = [blockedLock EXCEPT ![home[t]] = t]
                  /\ pc' = [pc EXCEPT ![t] = "r_wake"]
             ELSE /\ pc' = [pc EXCEPT ![t] = "r_unlock"]
                  /\ UNCHANGED blockedLock
     ELSE /\ pc' = [pc EXCEPT ![t] = "r_unlock"]
          /\ UNCHANGED << current_tid, queue, woken, arrival, blockedLock >>
  /\ UNCHANGED << current, ready, blocked, tstate, home, prio, held, stateLock, pending >>
  /\ UNCHANGED bootVars /\ UNCHANGED pqVars

\* A release() that pops and wakes a waiter whatever the count it leaves.
ReleaseDec_WakesAlways(t) ==
  /\ Executing(t) /\ pc[t] = "r_dec"
  /\ count' = count - 1
  /\ IF count - 1 >= 0
     THEN /\ current_tid' = IF count - 1 = 0 THEN NoTask ELSE current_tid
          /\ queue' = pop_rest(queue)
          /\ woken' = [woken EXCEPT ![t] = pop_task(queue)]
          /\ arrival' = RemoveFirst(arrival, pop_task(queue))
          /\ IF pop_task(queue) # NoTask
             THEN /\ blockedLock[home[pop_task(queue)]] = NoTask
                  /\ blockedLock' = [blockedLock EXCEPT ![home[pop_task(queue)]] = t]
                  /\ pc' = [pc EXCEPT ![t] = "r_wake"]
             ELSE /\ pc' = [pc EXCEPT ![t] = "r_unlock"]
                  /\ UNCHANGED blockedLock
     ELSE /\ pc' = [pc EXCEPT ![t] = "r_unlock"]
          /\ UNCHANGED << current_tid, queue, woken, arrival, blockedLock >>
  /\ UNCHANGED << current, ready, blocked, tstate, home, prio, held, stateLock, pending >>
  /\ UNCHANGED bootVars /\ UNCHANGED pqVars

\* A release() that checks the owner and does nothing for another caller.
ReleaseDec_ChecksOwner(t) ==
  \/ /\ current_tid = t
     /\ Executing(t) /\ pc[t] = "r_dec"
     /\ count' = count - 1
     /\ IF count - 1 = 0
        THEN /\ current_tid' = NoTask
             /\ queue' = pop_rest(queue)
             /\ woken' = [woken EXCEPT ![t] = pop_task(queue)]
             /\ arrival' = RemoveFirst(arrival, pop_task(queue))
             /\ IF pop_task(queue) # NoTask
                THEN /\ blockedLock[home[pop_task(queue)]] = NoTask
                     /\ blockedLock' = [blockedLock EXCEPT ![home[pop_task(queue)]] = t]
                     /\ pc' = [pc EXCEPT ![t] = "r_wake"]
                ELSE /\ pc' = [pc EXCEPT ![t] = "r_unlock"]
                     /\ UNCHANGED blockedLock
        ELSE /\ pc' = [pc EXCEPT ![t] = "r_unlock"]
             /\ UNCHANGED << current_tid, queue, woken, arrival, blockedLock >>
     /\ UNCHANGED << current, ready, blocked, tstate, home, prio, held, stateLock, pending >>
     /\ UNCHANGED bootVars /\ UNCHANGED pqVars
  \/ /\ current_tid # t
     /\ Executing(t) /\ pc[t] = "r_dec"
     /\ pc' = [pc EXCEPT ![t] = "r_unlock"]
     /\ UNCHANGED << current, ready, blocked, blockedLock, tstate, home, prio, held, woken >>
     /\ UNCHANGED bootVars /\ UNCHANGED mutexVars /\ UNCHANGED pqVars

\* locked_state.count -= 1;
\* if locked_state.count == 0 { current_tid = None;
\*     if let Some(task) = locked_state.queue.pop() {
\*         let core_scheduler = scheduler::get_scheduler(task.borrow().core_id);
\*         core_scheduler.blocked_tasks.lock()
\* count is a usize: its values are kept modulo 2^64 by their representative
\* nearest 0, so that 0 - 1 is usize::MAX, written -1, and -1 + 1 is 0.
ReleaseDec(t) ==
  /\ Executing(t) /\ pc[t] = "r_dec"
  /\ count' = count - 1
  /\ IF count - 1 = 0
     THEN /\ current_tid' = NoTask
          /\ queue' = pop_rest(queue)
          /\ woken' = [woken EXCEPT ![t] = pop_task(queue)]
          /\ arrival' = RemoveFirst(arrival, pop_task(queue))
          /\ IF pop_task(queue) # NoTask
             THEN /\ blockedLock[home[pop_task(queue)]] = NoTask
                  /\ blockedLock' = [blockedLock EXCEPT ![home[pop_task(queue)]] = t]
                  /\ pc' = [pc EXCEPT ![t] = "r_wake"]
             ELSE /\ pc' = [pc EXCEPT ![t] = "r_unlock"]
                  /\ UNCHANGED blockedLock
     ELSE /\ pc' = [pc EXCEPT ![t] = "r_unlock"]
          /\ UNCHANGED << current_tid, queue, woken, arrival, blockedLock >>
  /\ UNCHANGED << current, ready, blocked, tstate, home, prio, held, stateLock, pending >>
  /\ UNCHANGED bootVars /\ UNCHANGED pqVars

\* ReleaseWake with the call of custom_wakeup lost.
ReleaseWake_NoWakeup(t) ==
  /\ Executing(t) /\ pc[t] = "r_wake"
  /\ \E c \in Cores :
       /\ blockedLock[c] = t
       /\ blockedLock' = [blockedLock EXCEPT ![c] = NoTask]
  /\ pc' = [pc EXCEPT ![t] = "r_unlock"]
  /\ UNCHANGED << current, ready, blocked, tstate, home, prio, held, woken >>
  /\ UNCHANGED bootVars /\ UNCHANGED mutexVars /\ UNCHANGED pqVars

\* A release() whose custom_wakeup takes a task that is still in the wait
\* queue, when the popped waiter's core has one.
ReleaseWake_WrongTask(t) ==
  LET others == { u \in QueueTasks(queue) : home[u] = home[woken[t]] }
      w == IF others = {} THEN woken[t] ELSE CHOOSE u \in others : TRUE
  IN /\ Executing(t) /\ pc[t] = "r_wake"
     /\ \E c \in Cores :
          /\ blockedLock[c] = t
          /\ blocked' = [blocked EXCEPT ![c] = wakeup_blocked(@, w)]
          /\ blockedLock' = [blockedLock EXCEPT ![c] = NoTask]
     /\ tstate' = [tstate EXCEPT ![w] = "Ready"]
     /\ ready' = [ready EXCEPT ![home[w]] = push(@, w, prio[w])]
     /\ pc' = [pc EXCEPT ![t] = "r_unlock"]
     /\ UNCHANGED << current, home, prio, held, woken >>
     /\ UNCHANGED bootVars /\ UNCHANGED mutexVars /\ UNCHANGED pqVars

\* .custom_wakeup(task): the task leaves that core's blocked collection,
\* becomes Ready and enters the ready queue of its home core; the guard of
\* blocked_tasks is dropped at the end of the statement.
ReleaseWake(t) ==
  /\ Executing(t) /\ pc[t] = "r_wake"
  /\ \E c \in Cores :
       /\ blockedLock[c] = t
       /\ blocked' = [blocked EXCEPT ![c] = wakeup_blocked(@, woken[t])]
       /\ blockedLock' = [blockedLock EXCEPT ![c] = NoTask]
  /\ tstate' = [tstate EXCEPT ![woken[t]] = "Ready"]
  /\ ready' = [ready EXCEPT ![home[woken[t]]] = push(@, woken[t], prio[woken[t]])]
  /\ pc' = [pc EXCEPT ![t] = "r_unlock"]
  /\ UNCHANGED << current, home, prio, held, woken >>
  /\ UNCHANGED bootVars /\ UNCHANGED mutexVars /\ UNCHANGED pqVars

\* release() returns: locked_state is dropped.
ReleaseUnlock(t) ==
  /\ Executing(t) /\ pc[t] = "r_unlock"
  /\ stateLock' = NoTask
  /\ held' = [held EXCEPT ![t] = IF @ > 0 THEN @ - 1 ELSE @]
  /\ woken' = [woken EXCEPT ![t] = NoTask]
  /\ pc' = [pc EXCEPT ![t] = "run"]
  /\ UNCHANGED << current, ready, blocked, blockedLock, tstate, home, prio,
                  current_tid, count, queue, arrival, pending >>
  /\ UNCHANGED bootVars /\ UNCHANGED pqVars

\* ------------------------------------------------------------------- Next
Next ==
  \/ BootAddCurrentCore
  \/ BootApplicationProcessors
  \/ BootSpawnInitd
  \/ \E c \in Cores : APAddCurrentCore(c)
  \/ \E c \in Cores : SchedulerLoop(c)
  \/ \E t \in TaskIds : Yield(t)
  \/ \E t \in TaskIds, p \in Prios : TaskSpawn(t, p)
  \/ \E t \in TaskIds : AcquireLock(t)
  \/ \E t \in TaskIds : AcquireCheck(t)
  \/ \E t \in TaskIds : AcquireAdd(t)
  \/ \E t \in TaskIds : AcquirePush(t)
  \/ \E t \in TaskIds : AcquireSched(t)
  \/ \E t \in TaskIds : ReleaseLock(t)
  \/ \E t \in TaskIds : ReleaseDec(t)
  \/ \E t \in TaskIds : ReleaseWake(t)
  \/ \E t \in TaskIds : ReleaseUnlock(t)

Spec == Init /\ [][Next]_vars

\* ------------------------------------- fair scheduling
\* The steps of task t that follow a lock() of the state: the code between
\* lock() and the end of the call, executed by a core that runs the task.
LockedStep(t) ==
  \/ AcquireCheck(t) \/ AcquireAdd(t) \/ AcquirePush(t) \/ AcquireSched(t)
  \/ ReleaseDec(t) \/ ReleaseWake(t) \/ ReleaseUnlock(t)

\* The lock() at the top of the loop of acquire(), after a resumption.
RetryLock(t) == pc[t] = "a_lock" /\ AcquireLock(t)

\* Every core goes on executing: the boot code and the dispatch loops run
\* on, a task inside acquire() or release() executes its next statement,
\* and a lock() that finds the lock free again and again gets it.
Fairness ==
  /\ WF_vars(BootAddCurrentCore)
  /\ WF_vars(BootApplicationProcessors)
  /\ WF_vars(BootSpawnInitd)
  /\ \A c \in Cores : WF_vars(APAddCurrentCore(c)) /\ WF_vars(SchedulerLoop(c))
  /\ \A t \in TaskIds : WF_vars(LockedStep(t))
  /\ \A t \in TaskIds : SF_vars(RetryLock(t))

SpecFair == Spec /\ Fairness

\* ------------------------------------- fatal conditions
\* fn panic(info) -> !: the report is printed, then the core is in
\* loop { arch::processor::halt(); } for ever.
panic(c) ==
  /\ corePc' = [corePc EXCEPT ![c] = "halt"]

\* pub fn rust_oom(layout) -> !: the report is printed, then the core is in
\* loop { arch::processor::halt(); } for ever.
rust_oom(c) ==
  /\ corePc' = [corePc EXCEPT ![c] = "halt"]

\* sys_malloc(size, align) with a size and alignment that form no Layout:
\* Layout::from_size_align(size, align).unwrap() panics.
sys_malloc_Panics(t) ==
  /\ Executing(t) /\ pc[t] = "run"
  /\ panic(home[t])
  /\ UNCHANGED << registry, current, ready, blocked, blockedLock, tstate, home, prio,
                  pc, held, woken >>
  /\ UNCHANGED mutexVars /\ UNCHANGED pqVars

\* spawn() when the allocator cannot provide the stack: rust_oom is entered.
SpawnOutOfMemory(t) ==
  /\ Executing(t) /\ pc[t] = "run"
  /\ \E n \in TaskIds : tstate[n] = "None"
  /\ rust_oom(home[t])
  /\ UNCHANGED << registry, current, ready, blocked, blockedLock, tstate, home, prio,
                  pc, held, woken >>
  /\ UNCHANGED mutexVars /\ UNCHANGED pqVars

\* A halt loop that is left: the handler returns into the dispatch loop.
HaltLoop_Returns(c) ==
  /\ corePc[c] = "halt"
  /\ corePc' = [corePc EXCEPT ![c] = "loop"]
  /\ UNCHANGED << registry, current, ready, blocked, blockedLock, tstate, home, prio,
                  pc, held, woken >>
  /\ UNCHANGED mutexVars /\ UNCHANGED pqVars

\* One turn of the halt loop of a core that ran a fatal handler.
HaltLoop(c) ==
  /\ corePc[c] = "halt"
  /\ UNCHANGED vars

NextFatal ==
  \/ Next
  \/ \E t \in TaskIds : sys_malloc_Panics(t)
  \/ \E t \in TaskIds : SpawnOutOfMemory(t)
  \/ \E c \in Cores : HaltLoop(c)

SpecFatal == Init /\ [][NextFatal]_vars

\* ------------------------------------- release() by a task that holds nothing
\* release() called by a task that holds nothing while another task holds
\* the mutex: there is no check of the owner (lines 75-76).
UncheckedReleaseLock(t) ==
  /\ Executing(t) /\ pc[t] = "run"
  /\ held[t] = 0
  /\ count > 0 /\ current_tid # t
  /\ stateLock = NoTask
  /\ stateLock' = t
  /\ pc' = [pc EXCEPT ![t] = "r_dec"]
  /\ UNCHANGED << current, ready, blocked, blockedLock, tstate, home, prio, held, woken,
                  current_tid, count, queue, arrival, pending >>
  /\ UNCHANGED bootVars /\ UNCHANGED pqVars

\* locked_state.count -= 1 with count 0: a build with overflow checks
\* panics here ('attempt to subtract with overflow'); a build without them
\* wraps, which is ReleaseDec.
ReleaseDecOverflows(t) ==
  /\ Executing(t) /\ pc[t] = "r_dec"
  /\ count = 0
  /\ panic(home[t])
  /\ UNCHANGED << registry, current, ready, blocked, blockedLock, tstate, home, prio,
                  pc, held, woken >>
  /\ UNCHANGED mutexVars /\ UNCHANGED pqVars

NextUnchecked ==
  \/ Next
  \/ \E t \in TaskIds : UncheckedReleaseLock(t)
  \/ \E t \in TaskIds : ReleaseDecOverflows(t)
  \/ \E c \in Cores : HaltLoop(c)

SpecUnchecked == Init /\ [][NextUnchecked]_vars

\* ------------------------------------- the PriorityTaskQueue on its own
\* pqLog is the history of the queue: the <<task, priority>> pairs pushed
\* and not yet popped, in push order. pqOut is the last operation and what
\* it was given or returned.
PQPush(t, p) ==
  /\ t \notin QueueTasks(pq)
  /\ Len(pqLog) < MaxPQLen
  /\ pq' = push(pq, t, p)
  /\ pqLog' = Append(pqLog, << t, p >>)
  /\ pqOut' = << "push", t >>
  /\ UNCHANGED << current, ready, blocked, blockedLock, tstate, home, prio, pc, held, woken >>
  /\ UNCHANGED bootVars /\ UNCHANGED mutexVars

PQPop ==
  /\ pq' = pop_rest(pq)
  /\ pqOut' = << "pop", pop_task(pq) >>
  /\ pqLog' = RemoveFirst(pqLog, << pop_task(pq), IF IsEmpty(pq) THEN LOW_PRIO ELSE TopPrio(pq) >>)
  /\ UNCHANGED << current, ready, blocked, blockedLock, tstate, home, prio, pc, held, woken >>
  /\ UNCHANGED bootVars /\ UNCHANGED mutexVars

NextPQ ==
  \/ \E t \in TaskIds, p \in Prios : PQPush(t, p)
  \/ PQPop

SpecPQ == Init /\ [][NextPQ]_vars

\* ================================================================== claims
\* A task is inside the mutex from the return of its first acquire() to the
\* return of its last release().
InCS(t) == held[t] > 0

Waiting(t) == t \in QueueTasks(queue)

\* C1: mutual exclusion - at no instant have two different tasks both
\* returned from acquire() without having fully released.
C1_MutualExclusion ==
  \A t, u \in TaskIds : (InCS(t) /\ InCS(u)) => t = u

\* A task is inside the mutex while another one waits for it.
C1_Witness ==
  \E t, u \in TaskIds : t # u /\ InCS(t) /\ current_tid = t /\ Waiting(u) /\ tstate[u] = "Blocked"

\* C2: reentrancy - an acquire() by the owner increments count and returns
\* without blocking, dispatching or touching a queue; after k acquisitions
\* the owner stays the owner through its first k-1 releases, and the owner
\* changes only in its k-th release.
C2_Reentrancy ==
  [][ \A t \in TaskIds :
        /\ (pc[t] = "a_check" /\ pc'[t] # "a_check" /\ current_tid = t) =>
             /\ count' = count + 1
             /\ pc'[t] = "run"
             /\ held'[t] = held[t] + 1
             /\ current_tid' = t
             /\ UNCHANGED << current, ready, blocked, blockedLock, tstate, queue >>
        /\ (current_tid = t /\ current_tid' # t) =>
             (pc[t] = "r_dec" /\ held[t] = 1 /\ count = 1)
        /\ (pc[t] = "r_dec" /\ pc'[t] # "r_dec" /\ held[t] > 1) =>
             (current_tid' = t /\ count' = held[t] - 1)
    ]_vars

\* The owner holds the mutex twice over while another task waits for it.
C2_Witness ==
  \E t, u \in TaskIds :
    t # u /\ held[t] >= 2 /\ count >= 2 /\ current_tid = t /\ Waiting(u) /\ pc[t] = "run"

\* The number of containers that hold task t: the cores it is the current
\* task of, its entries in the ready queues and in the blocked queues.
Containers(t) ==
  Cardinality({ c \in Cores : current[c] = t })
  + Cardinality({ c \in Cores : QueueOccurrences(ready[c], t) = 1 })
  + 2 * Cardinality({ c \in Cores : QueueOccurrences(ready[c], t) > 1 })
  + Cardinality({ c \in Cores : SeqOccurrences(blocked[c], t) = 1 })
  + 2 * Cardinality({ c \in Cores : SeqOccurrences(blocked[c], t) > 1 })

\* C3: exclusivity - every live task is in exactly one container (a core's
\* current_task, one ready queue or one blocked queue) in every reachable
\* state, the states between add() and scheduler() in acquire() included.
C3_Exclusivity ==
  \A t \in TaskIds : tstate[t] # "None" => Containers(t) = 1

\* The step of task t in which release() pops a waiter off the wait queue.
PopsWaiter(t) == pc[t] = "r_dec" /\ pc'[t] = "r_wake"

\* The waiters of the highest priority among those of the arrival history.
TopWaiters == { i \in 1 .. Len(arrival) :
                  \A j \in 1 .. Len(arrival) : prio[arrival[j]] <= prio[arrival[i]] }

\* The earliest-blocked waiter among those of the highest priority.
EarliestTopWaiter ==
  arrival[CHOOSE i \in TopWaiters : \A j \in TopWaiters : i <= j]

\* C4 as claimed: a final release wakes the waiter that blocked first,
\* whatever the priorities of the waiters.
C4_FifoWhateverPriority ==
  [][ \A t \in TaskIds : PopsWaiter(t) => woken'[t] = Head(arrival) ]_vars

\* C4 as amended: a final release wakes the waiter that blocked first among
\* the waiters of the highest priority present; waiters of one priority are
\* woken in arrival order.
C4_FifoWithinPriority ==
  [][ \A t \in TaskIds :
        PopsWaiter(t) =>
          /\ arrival # << >>
          /\ woken'[t] = EarliestTopWaiter
          /\ arrival' = RemoveFirst(arrival, woken'[t])
          /\ \A p \in Prios : \A i, j \in 1 .. Len(queue'[p]) :
               i < j => \E a, b \in 1 .. Len(arrival') :
                          a < b /\ arrival'[a] = queue'[p][i] /\ arrival'[b] = queue'[p][j]
    ]_vars

\* A release has just popped one of two waiters of different priorities.
C4_Witness ==
  \E t, u \in TaskIds :
    /\ pc[t] = "r_wake" /\ woken[t] # NoTask
    /\ Waiting(u) /\ arrival = << u >>
    /\ prio[u] # prio[woken[t]]

\* The step of task t in which release() has custom_wakeup(task) done.
WakesWaiter(t) == pc[t] = "r_wake" /\ pc'[t] = "r_unlock"

\* C5: no lost wakeup - custom_wakeup(task) leaves the task Ready, exactly
\* once in the ready queue of its home core, in no other ready queue and in
\* no blocked queue, also when it follows add(task, None) at once (the task
\* has not reached its scheduler() call).
C5_NoLostWakeup ==
  [][ \A t \in TaskIds :
        WakesWaiter(t) =>
          /\ tstate'[woken[t]] = "Ready"
          /\ QueueOccurrences(ready'[home[woken[t]]], woken[t]) = 1
          /\ \A c \in Cores :
               /\ SeqOccurrences(blocked'[c], woken[t]) = 0
               /\ c # home[woken[t]] => QueueOccurrences(ready'[c], woken[t]) = 0
    ]_vars

\* The waiter was woken before it reached the scheduler() call that follows
\* its add(): it is Ready and queued once.
C5_Witness ==
  \E t, u \in TaskIds :
    /\ pc[t] = "r_unlock" /\ woken[t] = u
    /\ pc[u] = "a_sched" /\ current[home[u]] = u
    /\ tstate[u] = "Ready"
    /\ QueueOccurrences(ready[home[u]], u) = 1
    /\ SeqOccurrences(blocked[home[u]], u) = 0

\* C6: cross-core wakeup - a release() on core Y that wakes a waiter of home
\* core X # Y takes the waiter out of X's blocked queue and puts it, Ready,
\* at the tail of its priority in X's ready queue; Y's ready and blocked
\* queues are unchanged.
C6_CrossCoreWakeup ==
  [][ \A t \in TaskIds :
        (WakesWaiter(t) /\ home[woken[t]] # home[t]) =>
          /\ SeqOccurrences(blocked[home[woken[t]]], woken[t]) = 1
          /\ blocked'[home[woken[t]]] = RemoveFirst(blocked[home[woken[t]]], woken[t])
          /\ SeqOccurrences(blocked'[home[woken[t]]], woken[t]) = 0
          /\ ready'[home[woken[t]]] =
               [ready[home[woken[t]]] EXCEPT ![prio[woken[t]]] = Append(@, woken[t])]
          /\ tstate'[woken[t]] = "Ready"
          /\ ready'[home[t]] = ready[home[t]]
          /\ blocked'[home[t]] = blocked[home[t]]
    ]_vars

\* A release() on one core has woken a waiter of another core.
C6_Witness ==
  \E t, u \in TaskIds :
    /\ pc[t] = "r_unlock" /\ woken[t] = u
    /\ home[u] # home[t]
    /\ u \in QueueTasks(ready[home[u]])
    /\ u \notin QueueTasks(ready[home[t]])

\* The step of task t in which the scheduler() call of acquire() returns
\* control to the dispatcher.
AcquireDispatches(t) == pc[t] = "a_sched" /\ pc'[t] = "a_lock"

\* C7: dispatch - a scheduler() call that finds the ready queue empty and no
\* Running current task to put back dispatches the idle task; a core in its
\* dispatch loop stays in it, always has a current task, and its loop can
\* always take its next step.
C7_DispatchLiveness ==
  /\ [](\A c \in Cores :
          corePc[c] = "loop" =>
            /\ current[c] = IdleTask \/ IsTask(current[c])
            /\ current[c] = IdleTask => ENABLED SchedulerLoop(c))
  /\ [][ /\ \A c \in Cores : corePc[c] = "loop" => corePc'[c] = "loop"
         /\ \A t \in TaskIds :
              (AcquireDispatches(t) /\ IsEmpty(ready[home[t]]) /\ tstate[t] # "Running") =>
                current'[home[t]] = IdleTask
         /\ \A c \in Cores :
              (current[c] = IdleTask /\ corePc[c] = "loop" /\ IsEmpty(ready[c])) =>
                current'[c] = IdleTask
    ]_vars

\* The only task of a core has blocked and the core runs its idle task.
C7_Witness ==
  \E c \in Cores, t \in TaskIds :
    /\ corePc[c] = "loop" /\ current[c] = IdleTask /\ IsEmpty(ready[c])
    /\ home[t] = c /\ tstate[t] = "Blocked" /\ pc[t] = "a_lock"

\* The task, highest priority first and earliest push first, of a history.
RECURSIVE FirstOfPrio(_, _)
FirstOfPrio(log, p) ==
  IF log = << >> THEN NoTask
  ELSE IF Head(log)[2] = p THEN Head(log)[1]
  ELSE FirstOfPrio(Tail(log), p)

LogMaxPrio(log) ==
  CHOOSE p \in Prios : /\ \E i \in 1 .. Len(log) : log[i][2] = p
                       /\ \A i \in 1 .. Len(log) : log[i][2] <= p

ExpectedPop(log) == IF log = << >> THEN NoTask ELSE FirstOfPrio(log, LogMaxPrio(log))

\* C8: priority queue ordering - pop() returns and removes the task pushed
\* first among those of the highest priority queued, and returns the empty
\* result exactly when nothing is queued.
C8_PriorityQueueOrdering ==
  [][ (pqOut'[1] = "pop" /\ << pq, pqLog, pqOut >>' # << pq, pqLog, pqOut >>) =>
        /\ pqOut'[2] = ExpectedPop(pqLog)
        /\ (pqOut'[2] = NoTask) <=> (pqLog = << >>)
        /\ pqOut'[2] # NoTask =>
             /\ Len(pqLog') = Len(pqLog) - 1
             /\ pqOut'[2] \notin QueueTasks(pq')
        /\ QueueTasks(pq') = { pqLog'[i][1] : i \in 1 .. Len(pqLog') }
    ]_vars

\* A (task 1) at priority 1, B (task 2) at priority 2 and C (task 3) at
\* priority 1 were pushed in that order, and the first pop returned B.
C8_Witness ==
  /\ pqOut = << "pop", 2 >>
  /\ pqLog = << << 1, LOW_PRIO >>, << 3, LOW_PRIO >> >>

\* C9: mutex state invariant - while the state spinlock is not held, count
\* is non-zero exactly when there is an owner; the decrement of release()
\* never runs with count 0; only the owner takes count above 1.
C9_MutexStateInvariant ==
  /\ [](stateLock = NoTask => ((count # 0) <=> (current_tid # NoTask)))
  /\ [](count >= 0 /\ \A t \in TaskIds : pc[t] = "r_dec" => (count > 0 /\ current_tid = t))
  /\ [][ (count' > count /\ count' > 1) =>
           \E t \in TaskIds : current_tid = t /\ current_tid' = t /\ pc[t] = "a_check"
                              /\ pc'[t] = "run" /\ count' = count + 1
    ]_vars

\* The owner is about to make its last release with a waiter queued.
C9_Witness ==
  \E t \in TaskIds : pc[t] = "r_dec" /\ count = 1 /\ current_tid = t /\ ~IsEmpty(queue)

\* C10: registry population - a core registers its Scheduler exactly once,
\* before it spawns a task or calls scheduler(); a written entry is never
\* changed, also when an application processor registers after the boot
\* processor registered and started it.
C10_RegistryPopulation ==
  /\ [](\A c \in Cores :
          /\ registry[c] <= 1
          /\ corePc[c] \in {"registered", "spawn", "loop"} <=> registry[c] = 1
          /\ current[c] # NoTask => registry[c] = 1
          /\ \A t \in TaskIds : (tstate[t] # "None" /\ home[t] = c) => registry[c] = 1)
  /\ [][ \A c \in Cores : registry[c] > 0 => registry'[c] = registry[c] ]_vars

\* An application processor registered while the boot processor was in its
\* dispatch loop, and has been given a task since.
C10_Witness ==
  \E c \in Cores, t \in TaskIds :
    /\ c # BootCore /\ registry[c] = 1 /\ registry[BootCore] = 1
    /\ corePc[BootCore] = "loop" /\ corePc[c] = "loop"
    /\ tstate[t] # "None" /\ home[t] = c


\* ---------------------------------------------------------------- C11
\* The tasks whose home is core c.
TasksOf(c) == { t \in TaskIds : tstate[t] # "None" /\ home[t] = c }

\* C11: once a fatal condition (panic or out of memory) was raised on a
\* core, the core stays in the halt loop for ever: its handler never
\* returns, it dispatches no task, and none of its tasks takes a step of
\* acquire(), release() or any scheduler operation again (no task of it
\* moves, takes or drops a lock, or leaves its ready queue).
C11_FatalHalts ==
  [][\A c \in Cores : corePc[c] = "halt" =>
        /\ corePc'[c] = "halt"
        /\ current'[c] = current[c]
        /\ TasksOf(c) \subseteq TasksOf(c)'
        /\ \A t \in TasksOf(c) : pc'[t] = pc[t] /\ held'[t] = held[t]
        /\ \A t \in TasksOf(c) : (stateLock = t) = (stateLock' = t)
        /\ \A t \in TasksOf(c), d \in Cores : (blockedLock[d] = t) = (blockedLock'[d] = t)
        /\ \A p \in Prios : Len(ready'[c][p]) >= Len(ready[c][p])
    ]_vars

\* A core halted by a fatal condition while its current task owns the
\* mutex, and another core still runs.
C11_Witness ==
  \E c \in Cores, d \in Cores :
    /\ corePc[c] = "halt" /\ corePc[d] = "loop"
    /\ IsTask(current[c]) /\ held[current[c]] > 0

\* ---------------------------------------------------------------- C12
\* The number of entries of task t in the blocked queue of its home core.
InBlocked(t) == IF home[t] \in Cores THEN SeqOccurrences(blocked[home[t]], t) ELSE 0

\* Every owner releases in full again and again.
OwnersRelease == \A u \in TaskIds : []<>(held[u] = 0)

\* Every Ready task is dispatched.
FairDispatch == \A u \in TaskIds : (tstate[u] = "Ready") ~> (tstate[u] = "Running")

\* C12 as claimed: under fair dispatch and with owners that always release
\* in full, every task inside acquire() returns from it as owner.
C12_EveryAcquireReturns ==
  (OwnersRelease /\ FairDispatch) =>
     \A t \in TaskIds : (pc[t] \in {"a_lock", "a_check", "a_add", "a_push", "a_sched"}) ~> (pc[t] = "run")

\* Task t can run: it is Ready or Running, and current on its core or in
\* the ready queue of its core.
Runnable(t) ==
  /\ tstate[t] \in {"Ready", "Running"}
  /\ current[home[t]] = t \/ t \in QueueTasks(ready[home[t]])

\* C12 as amended: no waiter is lost. A task that has blocked in acquire()
\* and not yet locked the state again is in the wait queue, Blocked and in
\* its core's blocked queue, or is being woken by a release(), or has been
\* woken and can run - also when the wakeup came before its scheduler()
\* call; and whenever the mutex is free with a task in the wait queue,
\* some task that was woken can run and has yet to make its check.
C12_NoWaiterLost ==
  /\ \A t \in TaskIds : pc[t] \in {"a_sched", "a_lock"} =>
        \/ Waiting(t) /\ tstate[t] = "Blocked" /\ InBlocked(t) = 1
        \/ ~Waiting(t) /\ \E r \in TaskIds : pc[r] = "r_wake" /\ woken[r] = t
        \/ ~Waiting(t) /\ InBlocked(t) = 0 /\ Runnable(t)
  /\ (current_tid = NoTask /\ stateLock = NoTask /\ ~IsEmpty(queue)) =>
        \E u \in pending : ~Waiting(u) /\ Runnable(u) /\ pc[u] \in {"a_sched", "a_lock"}

\* A waiter was woken before its scheduler() call; the mutex is free and
\* another waiter is still Blocked in the wait queue.
C12_Witness ==
  \E t \in TaskIds, u \in TaskIds :
    /\ pc[t] = "a_sched" /\ tstate[t] = "Ready" /\ current[home[t]] = t
    /\ current_tid = NoTask /\ stateLock = NoTask
    /\ Waiting(u) /\ tstate[u] = "Blocked"

\* ---------------------------------------------------------------- C13
\* The step in which task t becomes the owner of the mutex.
BecomesOwner(t) == current_tid # t /\ current_tid' = t

\* C13 as claimed, for the task that never blocked: a task that takes the
\* free mutex without having blocked in this acquire() does so only when
\* no task that blocked before is still waiting for ownership.
C13_FifoOwnership ==
  [][ \A t \in TaskIds :
        (BecomesOwner(t) /\ t \notin pending) => pending = {} ]_vars

\* C13 as amended: ownership is taken, not delivered. A task becomes owner
\* only in its own check under the state lock, when the mutex has no owner;
\* a task that blocked becomes owner only after a release() popped it off
\* the wait queue and woke it; the waiters left in the wait queue by a pop
\* are of a lower priority than the popped one, or of its priority and
\* blocked after it.
C13_OwnershipAfterWakeup ==
  [][ \A t \in TaskIds :
        /\ BecomesOwner(t) =>
              /\ current_tid = NoTask /\ stateLock = t /\ pc[t] = "a_check"
              /\ tstate[t] = "Running"
              /\ t \notin QueueTasks(queue) /\ SeqOccurrences(arrival, t) = 0
              /\ InBlocked(t) = 0
              /\ pending' = pending \ {t}
        /\ PopsWaiter(t) =>
              \A i \in 1 .. Len(arrival') :
                 \/ prio[arrival'[i]] < prio[woken'[t]]
                 \/ /\ prio[arrival'[i]] = prio[woken'[t]]
                    /\ \E a, b \in 1 .. Len(arrival) :
                          a < b /\ arrival[a] = woken'[t] /\ arrival[b] = arrival'[i]
    ]_vars

\* A task that blocked and was woken is about to take the free mutex in
\* its check, while another task that blocked is still in the wait queue.
C13_Witness ==
  \E t \in TaskIds, u \in TaskIds :
    /\ pc[t] = "a_check" /\ t \in pending /\ current_tid = NoTask
    /\ u # t /\ Waiting(u)

\* ---------------------------------------------------------------- C14
\* The task holds one of the two kinds of spinlock.
HoldsBlockedLock(t) == \E c \in Cores : blockedLock[c] = t

C15_AtomicDoubleInsertion ==
  /\ \A t \in TaskIds :
        /\ QueueOccurrences(queue, t) <= 1
        /\ InBlocked(t) <= 1
        /\ t \in QueueTasks(queue) => InBlocked(t) = 1 /\ tstate[t] = "Blocked"
        /\ pc[t] = "a_push" => stateLock = t /\ InBlocked(t) = 1 /\ t \notin QueueTasks(queue)
        /\ pc[t] = "r_wake" => stateLock = t /\ IsTask(woken[t]) /\ InBlocked(woken[t]) = 1
  /\ stateLock = NoTask =>
        \A t \in TaskIds : InBlocked(t) = QueueOccurrences(queue, t)

\* A task is between its two insertions while the owner, on another core,
\* is about to make its final release.
C15_Witness ==
  \E t \in TaskIds, u \in TaskIds :
    /\ pc[u] = "a_push" /\ InBlocked(u) = 1 /\ u \notin QueueTasks(queue)
    /\ current_tid = t /\ count = 1 /\ Executing(t) /\ pc[t] = "run"
    /\ home[t] # home[u]

\* ---------------------------------------------------------------- C16
\* Task t is not the task its core executes.
Suspended(t) == tstate[t] # "None" /\ current[home[t]] # t

\* C16: a task that is about to call scheduler() in acquire(), and a task
\* that is suspended, hold neither the mutex state lock nor the lock of
\* any blocked queue.
C16_NoLockAcrossDispatch ==
  \A t \in TaskIds :
    (pc[t] = "a_sched" \/ Suspended(t)) => stateLock # t /\ ~HoldsBlockedLock(t)

\* A task was suspended by the scheduler() call of acquire() while a task
\* of another core holds the state lock.
C16_Witness ==
  \E t \in TaskIds, u \in TaskIds :
    /\ pc[t] = "a_lock" /\ Suspended(t) /\ t \in pending
    /\ stateLock = u /\ u # t

\* ---------------------------------------------------------------- C17
\* Task t is inside acquire().
InAcquire(t) == pc[t] \in {"a_lock", "a_check", "a_add", "a_push", "a_sched"}

\* C17: acquire() returns only from the check made under the state lock,
\* and only when that check found no owner and made the caller the owner
\* with count 1, or found the caller as owner and incremented count; a
\* wakeup changes neither the owner nor the position of the woken task;
\* after scheduler() the loop starts again with lock(); a check that finds
\* another owner goes on to block the caller and leaves the mutex as it is.
C17_Revalidation ==
  [][\A t \in TaskIds :
        /\ (InAcquire(t) /\ pc'[t] = "run") \/ held'[t] > held[t] =>
              /\ pc[t] = "a_check" /\ stateLock = t /\ pc'[t] = "run"
              /\ held'[t] = held[t] + 1
              /\ current_tid' = t
              /\ \/ current_tid = NoTask /\ count' = 1
                 \/ current_tid = t /\ count' = count + 1
        /\ (tstate[t] = "Blocked" /\ tstate'[t] # "Blocked") =>
              /\ pc'[t] = pc[t] /\ held'[t] = held[t]
              /\ current_tid' = NoTask
        /\ (pc[t] = "a_sched" /\ pc'[t] # "a_sched") => pc'[t] = "a_lock"
        /\ (pc[t] = "a_check" /\ pc'[t] # "a_check" /\ current_tid \notin {NoTask, t}) =>
              /\ pc'[t] = "a_add"
              /\ current_tid' = current_tid /\ count' = count /\ held' = held
        /\ (pc[t] = "a_add" /\ pc'[t] # "a_add") => pc'[t] = "a_push" /\ tstate'[t] = "Blocked"
        /\ (pc[t] = "a_push" /\ pc'[t] # "a_push") =>
              pc'[t] = "a_sched" /\ t \in QueueTasks(queue')
    ]_vars

\* A task that was woken finds another owner at its next check and is
\* about to block again.
C17_Witness ==
  \E t \in TaskIds :
    /\ t \in pending /\ pc[t] = "a_add"
    /\ current_tid \notin {NoTask, t}

\* ---------------------------------------------------------------- C18
\* What a release() may not touch unless it wakes a waiter.
wakeFrame == << queue, blocked, ready, tstate, current >>

\* C18: the decrement of a release() that leaves count > 0 changes count
\* and nothing else of the mutex, the queues and the task states; the
\* decrement that brings count to 0 clears the owner and, when the wait
\* queue is empty, changes nothing else, and otherwise removes exactly one
\* entry from the wait queue; the wakeup that follows makes exactly that
\* task Ready, moving it from its home core's blocked queue to its ready
\* queue, and changes no other task or queue; locking and unlocking the
\* state change none of these.
C18_ReleaseFrame ==
  [][\A t \in TaskIds :
        /\ (pc[t] = "r_dec" /\ pc'[t] # "r_dec" /\ count - 1 > 0) =>
              /\ count' = count - 1 /\ current_tid' = current_tid
              /\ pc'[t] = "r_unlock"
              /\ UNCHANGED wakeFrame
        /\ (pc[t] = "r_dec" /\ pc'[t] # "r_dec" /\ count - 1 = 0) =>
              /\ count' = 0 /\ current_tid' = NoTask
              /\ UNCHANGED << blocked, ready, tstate, current >>
              /\ IF IsEmpty(queue)
                 THEN queue' = queue /\ pc'[t] = "r_unlock"
                 ELSE /\ pc'[t] = "r_wake" /\ IsTask(woken'[t])
                      /\ QueueOccurrences(queue, woken'[t]) = 1
                      /\ \A u \in TaskIds :
                            QueueOccurrences(queue', u) =
                              IF u = woken'[t] THEN 0 ELSE QueueOccurrences(queue, u)
        /\ (pc[t] = "r_wake" /\ pc'[t] # "r_wake") =>
              /\ pc'[t] = "r_unlock"
              /\ UNCHANGED << current_tid, count, queue, current >>
              /\ tstate[woken[t]] = "Blocked" /\ tstate'[woken[t]] = "Ready"
              /\ \A u \in TaskIds \ {woken[t]} : tstate'[u] = tstate[u]
              /\ \A c \in Cores, u \in TaskIds :
                    /\ SeqOccurrences(blocked'[c], u) =
                         IF u = woken[t] /\ c = home[u]
                         THEN SeqOccurrences(blocked[c], u) - 1
                         ELSE SeqOccurrences(blocked[c], u)
                    /\ QueueOccurrences(ready'[c], u) =
                         IF u = woken[t] /\ c = home[u]
                         THEN QueueOccurrences(ready[c], u) + 1
                         ELSE QueueOccurrences(ready[c], u)
        /\ (pc[t] = "r_unlock" /\ pc'[t] # "r_unlock") \/ (pc[t] = "run" /\ pc'[t] = "r_dec") =>
              /\ UNCHANGED << current_tid, count >>
              /\ UNCHANGED wakeFrame
    ]_vars

\* A final release has woken one of two waiters: the other is still in the
\* wait queue and Blocked.
C18_Witness ==
  \E t \in TaskIds, u \in TaskIds :
    /\ pc[t] = "r_unlock" /\ IsTask(woken[t]) /\ tstate[woken[t]] = "Ready"
    /\ u # woken[t] /\ u \in QueueTasks(queue) /\ tstate[u] = "Blocked"

\* ---------------------------------------------------------------- C19
\* C19: release() does not look at the owner: with count > 0 its
\* decrement, whoever the caller is, takes one from count, and when that
\* leaves 0 it clears the owner and pops the first waiter of the wait
\* queue to wake it; it raises no error (a core halts in release() only
\* on the decrement of a count of 0).
C19_UncheckedRelease ==
  [][/\ \A t \in TaskIds :
          (pc[t] = "r_dec" /\ pc'[t] # "r_dec" /\ count > 0) =>
              /\ count' = count - 1
              /\ IF count = 1
                 THEN /\ current_tid' = NoTask
                      /\ queue' = pop_rest(queue)
                      /\ woken'[t] = pop_task(queue)
                      /\ pc'[t] = IF IsEmpty(queue) THEN "r_unlock" ELSE "r_wake"
                 ELSE /\ current_tid' = current_tid /\ queue' = queue
                      /\ pc'[t] = "r_unlock"
     /\ \A c \in Cores : (corePc[c] = "loop" /\ corePc'[c] = "halt") =>
          count = 0 /\ IsTask(current[c]) /\ pc[current[c]] = "r_dec"
    ]_vars

\* Two tasks are inside the critical section at once, one of them the
\* owner: a task that held nothing released the mutex of the other.
C19_Witness ==
  \E t \in TaskIds, u \in TaskIds :
    /\ t # u /\ held[t] > 0 /\ held[u] > 0
    /\ current_tid = u /\ pc[t] = "run" /\ pc[u] = "run"
====
